---- MODULE Spec2Model ----
(***************************************************************************)
(* A model of nix2pkg (src/main.py and src/libs/*.py): the `prepare` and   *)
(* `package` commands as a state machine over the steps between external   *)
(* tool calls, and the pure helpers (store path parsing, artifact naming,  *)
(* cross-compile expansion, scoped environment override) as operators on   *)
(* strings.  A string is a sequence of one-character strings.              *)
(***************************************************************************)
EXTENDS Integers, Sequences, FiniteSets, TLC

VARIABLES
    \* ---- the `package` / `prepare` run (src/main.py) ----
    pc,            \* position of the process: "start", "loop", "build", "closure", "inner", "exit", "idle"
    pkgs,          \* main.py:120/131 the requested package names (expanded at PackageStart)
    pkg,           \* main.py:105 --pkg flag
    force,         \* main.py:68 --force flag
    i,             \* index of the requested package the outer loop (main.py:140) is at
    all_pkgs,      \* main.py:152 closure of the current requested package
    all_bound,     \* whether the local all_pkgs has been assigned yet
    j,             \* index of the store path the inner loop (main.py:158) is at
    pkg_error,     \* main.py:126
    rpm_error,     \* main.py:133
    cwd,           \* number of "packages" directories below the start directory (main.py:155-157)
    output,        \* artifacts present in the output directories
    exit_code,     \* exit code of the process, -1 while it runs
    failure,       \* first failure class met by the run, "none" if none
    env,           \* os.environ: a function from the set variables to their values
    \* ---- history of the run, read by the properties only ----
    failedPkg,     \* index of the first requested package with a failed artifact build, 0 if none
    lastStepPkg,   \* index of the requested package the latest started step belongs to
    failedPath,    \* index in all_pkgs of the failed artifact build of the current requested package, 0 if none
    lastBuildIdx,  \* index in all_pkgs of the latest artifact build of the current requested package, 0 if none
    okAfterFail,   \* an artifact build succeeded after an earlier one failed
    clean,         \* every external step so far succeeded and every input was well-formed
    produced,      \* artifacts built successfully by this run
    dist_call,     \* the create_dpkg call of the run, NoCall if none was made
    nqueries,      \* closure queries issued by the latest get_pkgs_to_pack call
    nbuilds,       \* artifact builds (create_rpm, create_cpkg) invoked for the current requested package
    \* ---- what the run reads from the machine ----
    store,         \* the Nix store: its directory listing and what nix-store --query prints
    base_names,    \* main.py:149 the names build_pkg returned, <<>> when not to be read again
    \* ---- a single call of a helper ----
    call,          \* the helper called and its arguments
    ret,           \* what it returned, NoRet before the call
    env_before,    \* os.environ when the latest environment-scoped operation was called
    ncalls         \* number of environment-scoped operations called so far

runVars == <<pc, pkgs, pkg, force, i, all_pkgs, all_bound, j, pkg_error, rpm_error, cwd,
             output, exit_code, failure, failedPkg, lastStepPkg, failedPath,
             lastBuildIdx, okAfterFail, clean, produced, dist_call, nqueries, nbuilds,
             store, base_names>>
callVars == <<call, ret>>
envVars == <<env, env_before, ncalls>>
vars == <<runVars, callVars, envVars>>

(***************************************************************************)
(* Strings                                                                 *)
(***************************************************************************)
Digits == {"0", "1", "2", "3", "4", "5", "6", "7", "8", "9"}
LowerLetters == {"a", "b", "c", "d", "e", "f", "g", "h", "i", "j", "k", "l", "m",
                 "n", "o", "p", "q", "r", "s", "t", "u", "v", "w", "x", "y", "z"}
\* the character class [a-z0-9] of the store path pattern
LowerAlnum == LowerLetters \cup Digits
HexChars == Digits \cup {"a", "b", "c", "d", "e", "f"}

\* str.__contains__: sub occurs in s
Contains(s, sub) ==
    \E k \in 0..(Len(s) - Len(sub)) : SubSeq(s, k + 1, k + Len(sub)) = sub

\* str.endswith
EndsWith(s, suffix) ==
    /\ Len(s) >= Len(suffix)
    /\ SubSeq(s, Len(s) - Len(suffix) + 1, Len(s)) = suffix

\* str.replace(old, new): every non-overlapping occurrence, left to right
RECURSIVE StrReplace(_, _, _)
StrReplace(s, old, new) ==
    IF Len(s) < Len(old) \/ Len(old) = 0 THEN s
    ELSE IF SubSeq(s, 1, Len(old)) = old
         THEN new \o StrReplace(SubSeq(s, Len(old) + 1, Len(s)), old, new)
         ELSE <<Head(s)>> \o StrReplace(Tail(s), old, new)

\* str.replace(old, new, 1): the first occurrence only
RECURSIVE StrReplaceFirst(_, _, _)
StrReplaceFirst(s, old, new) ==
    IF Len(s) < Len(old) \/ Len(old) = 0 THEN s
    ELSE IF SubSeq(s, 1, Len(old)) = old
         THEN new \o SubSeq(s, Len(old) + 1, Len(s))
         ELSE <<Head(s)>> \o StrReplaceFirst(Tail(s), old, new)

\* the entries of l that are members of S, in order
RECURSIVE Only(_, _)
Only(l, S) ==
    IF l = <<>> THEN <<>>
    ELSE (IF Head(l) \in S THEN <<Head(l)>> ELSE <<>>) \o Only(Tail(l), S)

\* str.split(sep) for a one-character sep: the pieces between the separators
SplitAt(s, sep) ==
    LET at == {k \in 1..Len(s) : s[k] = sep}
        \* the position of the m-th separator, 0 before the first and past the end
        \* after the last
        nth(m) == IF m = 0 THEN 0
                  ELSE IF m > Cardinality(at) THEN Len(s) + 1
                  ELSE CHOOSE k \in at : Cardinality({q \in at : q < k}) = m - 1
    IN  [m \in 1..(Cardinality(at) + 1) |-> SubSeq(s, nth(m - 1) + 1, nth(m) - 1)]
StartsWith(s, prefix) == Len(s) >= Len(prefix) /\ SubSeq(s, 1, Len(prefix)) = prefix

Plus == <<"+">>
PlusWord == <<"p", "l", "u", "s">>
Dash == <<"-">>
Slash == <<"/">>

(***************************************************************************)
(* NixHelper.separate_name_hash: re.match of the store path pattern        *)
(***************************************************************************)
HashLen == 32

Raised == [ok |-> FALSE, hash |-> <<>>, name |-> <<>>]

\* a slip: the class of the hash narrowed to hexadecimal digits
MatchesAtHex(s, k) ==
    /\ k >= 1
    /\ k + HashLen + 1 <= Len(s)
    /\ s[k] = "/"
    /\ \A m \in 1..HashLen : s[k + m] \in HexChars
    /\ s[k + HashLen + 1] = "-"
    /\ \A m \in (k + HashLen + 2)..(Len(s) - 1) : s[m] # "\n"

\* the pattern's tail (a slash, 32 characters of the class, a dash, any rest)
\* matches s from the slash at position k: the dot matches no newline, and the
\* end anchor matches at the end or before a final newline
MatchesAt(s, k) ==
    /\ k >= 1
    /\ k + HashLen + 1 <= Len(s)
    /\ s[k] = "/"
    /\ \A m \in 1..HashLen : s[k + m] \in LowerAlnum
    /\ s[k + HashLen + 1] = "-"
    /\ \A m \in (k + HashLen + 2)..(Len(s) - 1) : s[m] # "\n"

\* the greedy leading wildcard gives characters back one at a time, so the
\* slash tried first is the rightmost one
RECURSIVE ScanFrom(_, _)
ScanFrom(s, k) ==
    IF k < 1 THEN 0
    ELSE IF MatchesAt(s, k) THEN k
    ELSE ScanFrom(s, k - 1)

separate_name_hash(path) ==
    LET prefixOk(k) == \A m \in 1..(k - 1) : path[m] # "\n"
        k == ScanFrom(path, Len(path))
        last == IF Len(path) > 0 /\ path[Len(path)] = "\n" THEN Len(path) - 1
                ELSE Len(path)
    IN  IF k = 0 \/ ~prefixOk(k) THEN Raised
        ELSE [ok |-> TRUE,
              hash |-> SubSeq(path, k + 1, k + HashLen),
              name |-> SubSeq(path, k + HashLen + 2, last)]

(***************************************************************************)
(* Artifact names: RPMHelper._rpm_name, PkgHelper._comp_pkg_name and       *)
(* PkgHelper._dist_pkg_name                                                *)
(***************************************************************************)
Nix2RpmPrefix == <<"n", "i", "x", "2", "r", "p", "m", "-">>
Nix2PkgPrefix == <<"n", "i", "x", "2", "p", "k", "g", "-">>
PkgSuffix == <<".", "p", "k", "g">>

\* a slip: only the first "+" is replaced (str.replace with count 1)
RpmNameFirstOnly(pkg_name, pkg_hash) ==
    StrReplaceFirst(Nix2RpmPrefix \o pkg_name \o Dash \o pkg_hash, Plus, PlusWord)

_rpm_name(pkg_name, pkg_hash) ==
    StrReplace(Nix2RpmPrefix \o pkg_name \o Dash \o pkg_hash, Plus, PlusWord)

_comp_pkg_name(pkg_name, pkg_hash) ==
    StrReplace(pkg_name \o Dash \o pkg_hash \o PkgSuffix, Plus, PlusWord)

_dist_pkg_name(pkg_name) ==
    StrReplace(Nix2PkgPrefix \o pkg_name \o PkgSuffix, Plus, PlusWord)

(***************************************************************************)
(* Architecture (system_helper.py) and NixHelper.add_cross_compile_pkgs    *)
(***************************************************************************)
is_arm(uname_version) == Contains(uname_version, <<"A", "R", "M", "6", "4">>)
is_x86(uname_version) == Contains(uname_version, <<"X", "8", "6", "_", "6", "4">>)

PkgsCross == <<"p", "k", "g", "s", "C", "r", "o", "s", "s">>
CrossArmPrefix == <<"p", "k", "g", "s", "C", "r", "o", "s", "s", ".", "a", "a", "r", "c",
                    "h", "6", "4", "-", "d", "a", "r", "w", "i", "n", ".">>
CrossX86Prefix == <<"p", "k", "g", "s", "C", "r", "o", "s", "s", ".", "x", "8", "6", "_",
                    "6", "4", "-", "d", "a", "r", "w", "i", "n", ".">>

\* a slip: on an x86 host the cross entry is appended before the native one
CrossEntriesSwapped(p, arm, x86, uname_version) ==
    IF Contains(p, PkgsCross) THEN <<p>>
    ELSE (IF is_x86(uname_version)
          THEN (IF arm THEN <<CrossArmPrefix \o p>> ELSE <<>>)
               \o (IF x86 THEN <<p>> ELSE <<>>)
          ELSE <<>>)
         \o
         (IF is_arm(uname_version)
          THEN (IF arm THEN <<p>> ELSE <<>>)
               \o (IF x86 THEN <<CrossX86Prefix \o p>> ELSE <<>>)
          ELSE <<>>)

\* nix_helper.py:305-317, the body of the loop: what one name appends to new_pkgs
CrossEntries(p, arm, x86, uname_version) ==
    IF Contains(p, PkgsCross) THEN <<p>>
    ELSE (IF is_x86(uname_version)
          THEN (IF x86 THEN <<p>> ELSE <<>>)
               \o (IF arm THEN <<CrossArmPrefix \o p>> ELSE <<>>)
          ELSE <<>>)
         \o
         (IF is_arm(uname_version)
          THEN (IF arm THEN <<p>> ELSE <<>>)
               \o (IF x86 THEN <<CrossX86Prefix \o p>> ELSE <<>>)
          ELSE <<>>)

RECURSIVE CrossLoop(_, _, _, _)
CrossLoop(ps, arm, x86, uname_version) ==
    IF ps = <<>> THEN <<>>
    ELSE CrossEntries(Head(ps), arm, x86, uname_version)
         \o CrossLoop(Tail(ps), arm, x86, uname_version)

\* a slip: the early return for the case of no flag left out
AddCrossNoEarlyReturn(ps, arm, x86, uname_version) ==
    CrossLoop(ps, arm, x86, uname_version)

add_cross_compile_pkgs(ps, arm, x86, uname_version) ==
    IF arm = FALSE /\ x86 = FALSE THEN ps
    ELSE CrossLoop(ps, arm, x86, uname_version)

(***************************************************************************)
(* RPMHelper.generate_spec and RPMHelper.get_build_arch                    *)
(***************************************************************************)
RequiresLabel == <<"R", "e", "q", "u", "i", "r", "e", "s", ":">>
Space == <<" ">>
Newline == <<"\n">>
NameLabel == <<"N", "a", "m", "e", ":", " ">>
VersionLine == <<"V", "e", "r", "s", "i", "o", "n", ":", " ", "1">>
ReleaseLine == <<"R", "e", "l", "e", "a", "s", "e", ":", " ", "0">>
SummaryLine == <<"S", "u", "m", "m", "a", "r", "y", ":", " ", "N", "i", "x", "2", "R", "P",
                 "M">>
GroupLine == <<"G", "r", "o", "u", "p", ":", " ", "N", "i", "x", "2", "R", "P", "M">>
LicenseLine == <<"L", "i", "c", "e", "n", "s", "e", ":", " ", "F", "a", "c", "e", "b", "o",
                 "o", "k">>
AutoReqLine == <<"A", "u", "t", "o", "R", "e", "q", ":", " ", "N", "o">>
AutoProvLine == <<"A", "u", "t", "o", "P", "r", "o", "v", ":", " ", "N", "o">>
PackagerLine == <<"P", "a", "c", "k", "a", "g", "e", "r", ":", " ", "p", "r", "o", "d",
                  "_", "m", "a", "c", "o", "s">>
DescriptionLine == <<"%", "d", "e", "s", "c", "r", "i", "p", "t", "i", "o", "n">>
PackagedWord == <<"P", "a", "c", "k", "a", "g", "e", "d", " ">>
WithHashWords == <<" ", "w", "i", "t", "h", " ", "h", "a", "s", "h", " ">>
UsingWords == <<" ", "u", "s", "i", "n", "g", " ", "n", "i", "x", "2", "r", "p", "m">>
InstallLine == <<"%", "i", "n", "s", "t", "a", "l", "l">>
MkdirLine == <<"m", "k", "d", "i", "r", " ", "-", "p", " ", "$", "R", "P", "M", "_", "B",
               "U", "I", "L", "D", "_", "R", "O", "O", "T", "/", "o", "p", "t", "/", "f",
               "a", "c", "e", "b", "o", "o", "k", "/", "n", "i", "x", "/", "s", "t", "o",
               "r", "e", "/">>
CpWords == <<"c", "p", " ", "-", "a", " ">>
CpTarget == <<" ", "$", "R", "P", "M", "_", "B", "U", "I", "L", "D", "_", "R", "O", "O",
              "T", "/", "o", "p", "t", "/", "f", "a", "c", "e", "b", "o", "o", "k", "/",
              "n", "i", "x", "/", "s", "t", "o", "r", "e", "/">>
FilesLine == <<"%", "f", "i", "l", "e", "s">>
CleanLine == <<"%", "c", "l", "e", "a", "n">>
ChmodLine == <<"c", "h", "m", "o", "d", " ", "-", "R", " ", "+", "w", " ", "$", "R", "P",
               "M", "_", "B", "U", "I", "L", "D", "_", "R", "O", "O", "T">>
RmLine == <<"r", "m", " ", "-", "r", "f", " ", "$", "R", "P", "M", "_", "B", "U", "I", "L",
            "D", "_", "R", "O", "O", "T">>

\* a value that may be None
NoneValue == [none |-> TRUE]
Some(str) == [none |-> FALSE, str |-> str]
\* what filter(None, ...) keeps: neither None nor the empty string
Truthy(x) == ~x.none /\ x.str # <<>>

\* a slip: the test against the package's own hash left out
RECURSIVE ReqLoopUnfiltered(_, _, _, _)
ReqLoopUnfiltered(deps_pairs, pkg_hash, req_line, nodeps) ==
    IF deps_pairs = <<>> THEN [req_line |-> req_line, nodeps |-> nodeps]
    ELSE LET dep_hash == Head(deps_pairs)[1]
             dep_name == Head(deps_pairs)[2]
         IN  ReqLoopUnfiltered(Tail(deps_pairs), pkg_hash,
                               req_line \o Space \o _rpm_name(dep_name, dep_hash), FALSE)

\* rpm_helper.py:49-52, the loop over the (hash, name) pairs
RECURSIVE ReqLoop(_, _, _, _)
ReqLoop(deps_pairs, pkg_hash, req_line, nodeps) ==
    IF deps_pairs = <<>> THEN [req_line |-> req_line, nodeps |-> nodeps]
    ELSE LET dep_hash == Head(deps_pairs)[1]
             dep_name == Head(deps_pairs)[2]
         IN  IF dep_hash # pkg_hash
             THEN ReqLoop(Tail(deps_pairs), pkg_hash,
                          req_line \o Space \o _rpm_name(dep_name, dep_hash), FALSE)
             ELSE ReqLoop(Tail(deps_pairs), pkg_hash, req_line, nodeps)

\* list(filter(None, l))
RECURSIVE FilterNone(_)
FilterNone(l) ==
    IF l = <<>> THEN <<>>
    ELSE (IF Truthy(Head(l)) THEN <<Head(l).str>> ELSE <<>>) \o FilterNone(Tail(l))

\* sep.join(l)
RECURSIVE Join(_, _)
Join(l, sep) ==
    IF l = <<>> THEN <<>>
    ELSE IF Len(l) = 1 THEN Head(l)
    ELSE Head(l) \o sep \o Join(Tail(l), sep)

\* rpm_helper.py:56-79, the lines of the spec file around req_line
SpecfileContents(pkg_path, pkg_name, pkg_hash, req_line) ==
    << Some(NameLabel \o _rpm_name(pkg_name, pkg_hash)),
       Some(VersionLine),
       Some(ReleaseLine),
       Some(SummaryLine),
       Some(GroupLine),
       Some(LicenseLine),
       Some(AutoReqLine),
       Some(AutoProvLine),
       Some(PackagerLine),
       req_line,
       Some(DescriptionLine),
       Some(PackagedWord \o pkg_name \o WithHashWords \o pkg_hash \o UsingWords),
       Some(InstallLine),
       Some(MkdirLine),
       Some(CpWords \o pkg_path \o CpTarget),
       Some(FilesLine),
       Some(pkg_path),
       Some(CleanLine),
       Some(ChmodLine),
       Some(RmLine) >>

\* a slip: req_line kept when no dependency was added to it
GenerateSpecKeepsBareRequires(pkg_path, pkg_name, pkg_hash, deps_pairs) ==
    LET loop == ReqLoop(deps_pairs, pkg_hash, RequiresLabel, TRUE)
    IN  Join(FilterNone(SpecfileContents(pkg_path, pkg_name, pkg_hash, Some(loop.req_line))),
             Newline)

generate_spec(pkg_path, pkg_name, pkg_hash, deps_pairs) ==
    LET loop == ReqLoop(deps_pairs, pkg_hash, RequiresLabel, TRUE)
        req_line == IF loop.nodeps THEN NoneValue ELSE Some(loop.req_line)
    IN  Join(FilterNone(SpecfileContents(pkg_path, pkg_name, pkg_hash, req_line)), Newline)

\* the lines of a spec text, and those of them that are Requires tags: what
\* rpmbuild reads of the dependencies of the package it builds
Lines(text) == SplitAt(text, "\n")
RequiresLines(text) ==
    LET ls == Lines(text)
    IN  Only(ls, {ls[m] : m \in {n \in DOMAIN ls : StartsWith(ls[n], RequiresLabel)}})

Aarch64 == <<"a", "a", "r", "c", "h", "6", "4">>
X8664 == <<"x", "8", "6", "_", "6", "4">>
AppleDarwinDash == <<"-", "a", "p", "p", "l", "e", "-", "d", "a", "r", "w", "i", "n", "-">>

\* a slip: the two fragment tests made in the other order
BuildArchArmLast(pkg_name, uname_version) ==
    IF Contains(pkg_name, Aarch64 \o AppleDarwinDash) THEN Aarch64
    ELSE IF Contains(pkg_name, X8664 \o AppleDarwinDash) THEN X8664
    ELSE IF is_arm(uname_version) THEN Aarch64 ELSE X8664

get_build_arch(pkg_name, uname_version) ==
    LET native == IF is_arm(uname_version) THEN Aarch64 ELSE X8664
        afterArm == IF Contains(pkg_name, Aarch64 \o AppleDarwinDash) THEN Aarch64 ELSE native
    IN  IF Contains(pkg_name, X8664 \o AppleDarwinDash) THEN X8664 ELSE afterArm

(***************************************************************************)
(* NixHelper._set_enviromentals: the scoped override of os.environ.        *)
(* A value is a sequence of string pieces, concatenation is \o.            *)
(***************************************************************************)
SetVar(e, k, v) == (k :> v) @@ e

fwdproxy == TRUE

_set_fwdproxy_enviromentals(e) ==
    LET e1 == SetVar(e, "no_proxy", <<".fbcdn.net,...,localhost">>)
        e2 == SetVar(e1, "http_proxy", <<"fwdproxy:8080">>)
        e3 == SetVar(e2, "https_proxy", <<"fwdproxy:8080">>)
        e4 == SetVar(e3, "ftp_proxy", <<"fwdproxy:8080">>)
    IN  SetVar(e4, "CURL_NIX_FLAGS", <<"-x http://fwdproxy:8080 --proxy-insecure">>)

\* the part of the context manager before its yield: the environment it leaves
\* and whether it raised KeyError (HOME or PATH unset) on the way
EnterEnviromentals(e, force_build) ==
    LET e1 == SetVar(e, "NIX_STORE_DIR", <<"/nix/store">>)
        e2 == SetVar(e1, "NIX_STATE_DIR", <<"/nix/var/nix">>)
        e3 == SetVar(e2, "NIX_LOG_DIR", <<"/nix/var/log/nix">>)
        e4 == SetVar(e3, "NIX_CONF_DIR", <<"/nix/conf">>)
        e5 == SetVar(e4, "NIX_SSL_CERT_FILE", <<"CA_PACKAGE", "/etc/ssl/certs/ca-bundle.crt">>)
    IN  IF "HOME" \notin DOMAIN e5 THEN [env |-> e5, raised |-> TRUE]
        ELSE
        LET nix_link == e5["HOME"] \o <<"/.nix-profile">>
            e6 == SetVar(e5, "NIX_PATH", e5["HOME"] \o <<"/.nix-defexpr/channels">>)
            e7 == SetVar(e6, "NIX_PROFILES",
                         <<"/nix/var/nix/profiles", "/default ">> \o e6["HOME"] \o <<"/.nix-profile">>)
        IN  IF "PATH" \notin DOMAIN e7 THEN [env |-> e7, raised |-> TRUE]
            ELSE
            LET e8 == SetVar(e7, "PATH", nix_link \o <<"/bin:">> \o e7["PATH"])
                e9 == SetVar(e8, "NIXPKGS_ALLOW_UNFREE", <<"1">>)
                e10 == IF force_build
                       THEN SetVar(SetVar(SetVar(e9, "NIXPKGS_ALLOW_INSECURE", <<"1">>),
                                          "NIXPKGS_ALLOW_UNSUPPORTED_SYSTEM", <<"1">>),
                                   "NIXPKGS_ALLOW_BROKEN", <<"1">>)
                       ELSE e9
            IN  [env |-> IF fwdproxy THEN _set_fwdproxy_enviromentals(e10) ELSE e10,
                 raised |-> FALSE]

EmptyEnv == [v \in {} |-> <<>>]

\* a slip: os.environ.update(saved) without the os.environ.clear() before it
RestoreWithoutClear(cur, saved) == saved @@ cur

\* nix_helper.py:73-74: os.environ.clear(); os.environ.update(saved)
RestoreEnviromentals(cur, saved) == saved @@ EmptyEnv

\* `with self._set_enviromentals(force_build): body`: os.environ after the
\* statement, and whether the statement returned.  The restore follows the yield
\* with no try/finally around it, so it runs only when the body raised nothing.
_set_enviromentals(e, force_build, body_raises) ==
    LET entered == EnterEnviromentals(e, force_build)
    IN  IF entered.raised THEN [env |-> entered.env, returned |-> FALSE]
        ELSE IF body_raises THEN [env |-> entered.env, returned |-> FALSE]
        ELSE [env |-> RestoreEnviromentals(entered.env, e), returned |-> TRUE]

(***************************************************************************)
(* Bounds and input sets                                                    *)
(***************************************************************************)
MaxNameLen == 3       \* longest package name given to the naming helpers
MaxCrossLen == 2      \* longest list given to add_cross_compile_pkgs
MaxCalls == 2         \* environment-scoped operations called in a row
MaxPkgs == 1          \* longest requested package list of a run
MaxDeps == 3          \* longest dependency-pair list given to generate_spec

SeqsUpTo(S, n) == UNION {[1..m -> S] : m \in 0..n}

Wget == <<"w", "g", "e", "t">>
Curl == <<"c", "u", "r", "l">>
Gpp == <<"g", "+", "+">>
StoreDir == <<"/", "n", "i", "x", "/", "s", "t", "o", "r", "e", "/">>

\* n characters, all c except a d at position k
HashLike(n, c, k, d) == [m \in 1..n |-> IF m = k THEN d ELSE c]
HashA == HashLike(HashLen, "a", 0, "a")
HashB == HashLike(HashLen, "b", HashLen, "7")

\* store paths the external tool may print: two well-formed ones, one with a
\* "+" in its name, and one that is not of the store path shape
PathWget == StoreDir \o HashA \o Dash \o Wget
PathGpp == StoreDir \o HashB \o Dash \o Gpp
PathBad == StoreDir \o <<"l", "o", "c", "k">>

\* paths given to separate_name_hash alone: a directory part, a hash-like run
\* of 31, 32 or 33 characters with one character varied, and a tail
ParseDirs == {<<>>, Slash, StoreDir, <<"s", "/">>}
ParseHashes ==
    {HashLike(n, "a", k, d) : n \in {HashLen - 1, HashLen, HashLen + 1},
                              k \in {1, HashLen},
                              d \in {"a", "f", "g", "z", "0", "9", "A", "-", "/", "+"}}
ParseTails ==
    {<<>>, Dash, Dash \o Wget, Dash \o Wget \o Dash \o <<"1">>, Wget,
     Dash \o Gpp, Dash \o Wget \o <<"/", "b", "i", "n">>,
     Dash \o Wget \o Slash \o HashB \o Dash \o Curl,
     Dash \o Wget \o <<"\n">>, Dash \o <<"w", "\n", "g">>}
ParseInputs == {d \o h \o t : d \in ParseDirs, h \in ParseHashes, t \in ParseTails}

NameChars == {"a", "+", "-"}
NameInputs == SeqsUpTo(NameChars, MaxNameLen)
HashInputs == {HashA, <<"h", "+">>}

CrossNames == {Wget, Gpp, CrossArmPrefix \o Wget}
\* os.uname().version of an Apple silicon Mac, of an Intel Mac and of a Linux host
UnameArm == <<"R", "E", "L", "E", "A", "S", "E", "_", "A", "R", "M", "6", "4", "_", "T", "6", "0", "0", "0">>
UnameX86 == <<"R", "E", "L", "E", "A", "S", "E", "_", "X", "8", "6", "_", "6", "4">>
UnameLinux == <<"#", "1", " ", "S", "M", "P">>
Unames == {UnameArm, UnameX86, UnameLinux}

\* (hash, name) pairs as separate_name_hash returns them, and the packages
\* whose spec is generated
HashC == HashLike(HashLen, "c", 0, "c")
DepPairs == {<<HashA, Wget>>, <<HashB, Gpp>>, <<HashC, Curl>>, <<HashA, Curl>>}
SpecPackages == {[path |-> PathWget, name |-> Wget, hash |-> HashA],
                 [path |-> PathGpp, name |-> Gpp, hash |-> HashB]}

\* package names given to get_build_arch: without a cross-compile fragment,
\* with one, with both in either order, and with a fragment cut short
Gcc == <<"g", "c", "c">>
ArchNames == {Wget,
              Aarch64 \o AppleDarwinDash \o Gcc,
              X8664 \o AppleDarwinDash \o Gcc,
              Aarch64 \o AppleDarwinDash \o X8664 \o AppleDarwinDash \o Gcc,
              X8664 \o AppleDarwinDash \o Aarch64 \o AppleDarwinDash \o Gcc,
              Aarch64 \o <<"-", "a", "p", "p", "l", "e">>}

UserEnv ==
    [v \in {"HOME", "PATH", "LANG", "NIX_PATH", "NIXPKGS_ALLOW_BROKEN"} |->
        CASE v = "HOME" -> <<"/Users/u">>
          [] v = "PATH" -> <<"/usr/bin">>
          [] v = "LANG" -> <<"C">>
          [] v = "NIX_PATH" -> <<"/my/channels">>
          [] OTHER -> <<"0">>]
EnvInputs == {[v \in S |-> UserEnv[v]] : S \in SUBSET DOMAIN UserEnv}

(***************************************************************************)
(* Single calls of the helpers                                             *)
(***************************************************************************)
NoCall == [op |-> "none"]
EmptyStore == [listing |-> <<>>, requisites |-> <<>>, references |-> <<>>]
NoRet == [done |-> FALSE]

IdleRun ==
    /\ pc = "idle" /\ pkgs = <<>> /\ pkg = FALSE /\ force = FALSE /\ i = 0
    /\ all_pkgs = <<>> /\ all_bound = FALSE /\ j = 0
    /\ pkg_error = FALSE /\ rpm_error = FALSE /\ cwd = 0 /\ output = {}
    /\ exit_code = -1 /\ failure = "none"
    /\ failedPkg = 0 /\ lastStepPkg = 0 /\ failedPath = 0 /\ lastBuildIdx = 0
    /\ okAfterFail = FALSE /\ clean = TRUE /\ produced = {} /\ dist_call = NoCall
    /\ nqueries = 0 /\ nbuilds = 0 /\ store = EmptyStore /\ base_names = <<>>
IdleEnv == env = EmptyEnv /\ env_before = EmptyEnv /\ ncalls = 0

\* ---- separate_name_hash ----
InitParse ==
    /\ IdleRun /\ IdleEnv
    /\ call \in {[op |-> "separate_name_hash", path |-> p] : p \in ParseInputs}
    /\ ret = NoRet

CallSeparateNameHash ==
    /\ call.op = "separate_name_hash" /\ ~ret.done
    /\ ret' = [done |-> TRUE, val |-> separate_name_hash(call.path)]
    /\ UNCHANGED <<call, runVars, envVars>>

SpecParse == InitParse /\ [][CallSeparateNameHash]_vars

\* ---- the naming helpers ----
InitName ==
    /\ IdleRun /\ IdleEnv
    /\ call \in {[op |-> "name", pkg_name |-> n, pkg_hash |-> h] :
                    n \in NameInputs, h \in HashInputs}
    /\ ret = NoRet

CallRpmName ==
    /\ call.op = "name" /\ ~ret.done
    /\ ret' = [done |-> TRUE, fn |-> "_rpm_name", val |-> _rpm_name(call.pkg_name, call.pkg_hash)]
    /\ UNCHANGED <<call, runVars, envVars>>

CallCompPkgName ==
    /\ call.op = "name" /\ ~ret.done
    /\ ret' = [done |-> TRUE, fn |-> "_comp_pkg_name",
               val |-> _comp_pkg_name(call.pkg_name, call.pkg_hash)]
    /\ UNCHANGED <<call, runVars, envVars>>

CallDistPkgName ==
    /\ call.op = "name" /\ ~ret.done
    /\ ret' = [done |-> TRUE, fn |-> "_dist_pkg_name", val |-> _dist_pkg_name(call.pkg_name)]
    /\ UNCHANGED <<call, runVars, envVars>>

SpecName == InitName /\ [][CallRpmName \/ CallCompPkgName \/ CallDistPkgName]_vars

\* ---- add_cross_compile_pkgs ----
InitCross ==
    /\ IdleRun /\ IdleEnv
    /\ call \in {[op |-> "add_cross_compile_pkgs", pkgs |-> ps, arm |-> a, x86 |-> x,
                  uname |-> u] :
                    ps \in SeqsUpTo(CrossNames, MaxCrossLen), a \in BOOLEAN,
                    x \in BOOLEAN, u \in Unames}
    /\ ret = NoRet

CallAddCrossCompilePkgs ==
    /\ call.op = "add_cross_compile_pkgs" /\ ~ret.done
    /\ ret' = [done |-> TRUE,
               val |-> add_cross_compile_pkgs(call.pkgs, call.arm, call.x86, call.uname)]
    /\ UNCHANGED <<call, runVars, envVars>>

SpecCross == InitCross /\ [][CallAddCrossCompilePkgs]_vars

\* ---- RPMHelper.generate_spec and RPMHelper.get_build_arch ----
InitRpm ==
    /\ IdleRun /\ IdleEnv
    /\ call \in {[op |-> "generate_spec", pkg_path |-> p.path, pkg_name |-> p.name,
                  pkg_hash |-> p.hash, deps_pairs |-> d] :
                    p \in SpecPackages, d \in SeqsUpTo(DepPairs, MaxDeps)}
               \cup {[op |-> "get_build_arch", pkg_name |-> n, uname |-> u] :
                    n \in ArchNames, u \in Unames}
    /\ ret = NoRet

CallGenerateSpec ==
    /\ call.op = "generate_spec" /\ ~ret.done
    /\ ret' = [done |-> TRUE,
               val |-> generate_spec(call.pkg_path, call.pkg_name, call.pkg_hash,
                                     call.deps_pairs)]
    /\ UNCHANGED <<call, runVars, envVars>>

CallGetBuildArch ==
    /\ call.op = "get_build_arch" /\ ~ret.done
    /\ ret' = [done |-> TRUE, val |-> get_build_arch(call.pkg_name, call.uname)]
    /\ UNCHANGED <<call, runVars, envVars>>

SpecRpm == InitRpm /\ [][CallGenerateSpec \/ CallGetBuildArch]_vars

\* ---- the operations that run an external call under the scoped override ----
\* NixHelper.switch_profile, get_pkgs_references, initial_setup and
\* _nix_env_shell_out: one with-statement around the external calls; the body
\* raises when a call cannot be started (or, in initial_setup, .reginfo cannot
\* be opened)
ScopedCall(e, body_raises) == _set_enviromentals(e, FALSE, body_raises)

\* NixHelper.build_pkg: one with-statement under force; the body raises
\* NixBuildError when the download is missing, the repo root is undetermined,
\* nix build exits nonzero or no build result is found
BuildOutcomes == {"ok", "no_download", "no_repo_root", "nix_build_failed", "no_build_results"}
build_pkg_env(e, force_build, outcome) == _set_enviromentals(e, force_build, outcome # "ok")

\* NixHelper.get_pkgs_to_pack: raises before any override when no store
\* directory matches, else one with-statement per matching directory
RECURSIVE QueryEach(_, _)
QueryEach(e, ndirs) ==
    IF ndirs = 0 THEN [env |-> e, returned |-> TRUE]
    ELSE LET one == _set_enviromentals(e, FALSE, FALSE)
         IN  IF one.returned THEN QueryEach(one.env, ndirs - 1) ELSE one

get_pkgs_to_pack_env(e, ndirs) ==
    IF ndirs = 0 THEN [env |-> e, returned |-> FALSE]
    ELSE QueryEach(e, ndirs)

InitEnv ==
    /\ IdleRun
    /\ env \in EnvInputs /\ env_before = env /\ ncalls = 0
    /\ call = NoCall /\ ret = NoRet

Called(op, force_build, result) ==
    /\ ncalls < MaxCalls
    /\ ncalls' = ncalls + 1
    /\ env_before' = env
    /\ env' = result.env
    /\ call' = [op |-> op, force |-> force_build]
    /\ ret' = [done |-> TRUE, returned |-> result.returned]
    /\ UNCHANGED runVars

CallSwitchProfile ==
    \E body_raises \in BOOLEAN :
        Called("switch_profile", FALSE, ScopedCall(env, body_raises))

CallGetPkgsReferences ==
    \E body_raises \in BOOLEAN :
        Called("get_pkgs_references", FALSE, ScopedCall(env, body_raises))

CallInitialSetup ==
    \E body_raises \in BOOLEAN :
        Called("initial_setup", FALSE, ScopedCall(env, body_raises))

CallBuildPkg ==
    \E force_build \in BOOLEAN, outcome \in BuildOutcomes :
        Called("build_pkg", force_build, build_pkg_env(env, force_build, outcome))

CallGetPkgsToPack ==
    \E ndirs \in 0..2 :
        Called("get_pkgs_to_pack", FALSE, get_pkgs_to_pack_env(env, ndirs))

NextEnv ==
    \/ CallSwitchProfile
    \/ CallGetPkgsReferences
    \/ CallInitialSetup
    \/ CallBuildPkg
    \/ CallGetPkgsToPack

SpecEnv == InitEnv /\ [][NextEnv]_vars

(***************************************************************************)
(* The commands of src/main.py                                             *)
(***************************************************************************)
\* what the external tools may answer
ExitStatuses == {0, 1}
\* the lists that hold the members of S once each
ListsOfSet(S) == {l \in [1..Cardinality(S) -> S] : \A x \in S : \E m \in DOMAIN l : l[m] = x}

\* the Nix store of the machine: the entries os.listdir gives for /nix/store,
\* and what nix-store --query --requisites and --references print for a path.
\* In GoodStore wget needs curl and g++ and refers to itself, curl needs g++,
\* and a lock file lies next to wget's directory; in BrokenStore a query prints
\* a line that is no store path, the path of a file, or nothing.
PathCurl == StoreDir \o HashC \o Dash \o Curl
BaseWget == HashA \o Dash \o Wget
BaseGpp == HashB \o Dash \o Gpp
BaseCurl == HashC \o Dash \o Curl
BaseLock == BaseWget \o <<".", "l", "o", "c", "k">>
BaseMissing == HashLike(HashLen, "d", 0, "d") \o Dash \o Wget
PathLock == StoreDir \o BaseLock
GoodStore ==
    [listing |-> <<[name |-> BaseWget, isdir |-> TRUE],
                   [name |-> BaseLock, isdir |-> FALSE],
                   [name |-> BaseGpp, isdir |-> TRUE],
                   [name |-> BaseCurl, isdir |-> TRUE]>>,
     requisites |-> (PathWget :> <<PathGpp, PathCurl, PathWget>>)
                    @@ (PathCurl :> <<PathGpp, PathCurl>>)
                    @@ (PathGpp :> <<PathGpp>>),
     references |-> (PathWget :> <<PathWget, PathCurl>>)
                    @@ (PathCurl :> <<PathGpp>>)
                    @@ (PathGpp :> <<>>)]
BrokenStore ==
    [listing |-> <<[name |-> BaseWget, isdir |-> TRUE],
                   [name |-> BaseLock, isdir |-> FALSE],
                   [name |-> BaseGpp, isdir |-> TRUE],
                   [name |-> BaseCurl, isdir |-> TRUE]>>,
     requisites |-> (PathWget :> <<PathWget, PathBad>>)
                    @@ (PathCurl :> <<PathLock>>)
                    @@ (PathGpp :> <<>>),
     references |-> (PathWget :> <<PathBad>>) @@ (PathLock :> <<>>)]
Stores == {GoodStore, BrokenStore}
\* the names build_pkg may return: the basenames the build results resolve to
BaseNameLists == {<<BaseWget>>, <<BaseCurl, BaseGpp>>, <<Curl, BaseCurl>>, <<BaseGpp>>,
                  <<BaseMissing>>}

\* os.path.isdir of a store path
IsDir(st, path) ==
    \E m \in DOMAIN st.listing :
        StoreDir \o st.listing[m].name = path /\ st.listing[m].isdir

\* what a query prints for a path, nothing for a path the store does not know
Printed(answers, path) == IF path \in DOMAIN answers THEN answers[path] ELSE <<>>

\* nix_helper.py:257-260, the two nested loops: the store directories whose
\* entry name contains a requested name, once for each name it contains
RECURSIVE MatchNames(_, _)
MatchNames(file, pnames) ==
    IF pnames = <<>> THEN <<>>
    ELSE (IF Contains(file.name, Head(pnames)) /\ file.isdir
          THEN <<StoreDir \o file.name>> ELSE <<>>)
         \o MatchNames(file, Tail(pnames))
RECURSIVE DirList(_, _)
DirList(listing, pnames) ==
    IF listing = <<>> THEN <<>>
    ELSE MatchNames(Head(listing), pnames) \o DirList(Tail(listing), pnames)

\* nix_helper.py:263-272: accum extended by what each query prints
RECURSIVE Accum(_, _)
Accum(dirlist, requisites) ==
    IF dirlist = <<>> THEN <<>>
    ELSE Printed(requisites, Head(dirlist)) \o Accum(Tail(dirlist), requisites)

\* a slip: accum returned as it is
AccumAsList(accum) == {accum}

\* list(set(accum)): the members of accum once each, in an order the set decides
ListOfSet(accum) == ListsOfSet({accum[m] : m \in DOMAIN accum})

\* NixHelper.get_pkgs_to_pack: whether it raised the not-found error, the
\* closure queries it issued, and the lists it may return
get_pkgs_to_pack(pnames, st) ==
    LET dirlist == DirList(st.listing, pnames)
    IN  IF Len(dirlist) = 0
        THEN [raised |-> TRUE, queries |-> 0, returns |-> {}]
        ELSE [raised |-> FALSE, queries |-> Len(dirlist),
              returns |-> ListOfSet(Accum(dirlist, st.requisites))]
RunEnvs == {[v \in S |-> UserEnv[v]] : S \in {{"HOME", "PATH", "LANG"}, {"PATH", "LANG"}}}

\* RPMHelper.clean_output: the RPM output directory is removed
clean_output(out) == {a \in out : a.kind # "rpm"}

\* ---- prepare ----
TarXz == <<".", "t", "a", "r", ".", "x", "z">>

\* NetworkIOHelper.download_release: a bare return
download_release == NoneValue

\* LocalIOHelper.untar_archive: the exception it raises, "none" if it returns
untar_archive(archivepath) ==
    IF archivepath.none THEN "AttributeError"
    ELSE IF ~EndsWith(archivepath.str, TarXz) THEN "WrongArchiveType"
    ELSE "none"

\* LocalIOHelper.install_files
install_files(nix_install_isdir) ==
    IF ~nix_install_isdir THEN "RuntimeError" ELSE "none"

\* a slip: a missing archive tolerated
CleanInstallFilesGuarded(archivename) == "none"

\* LocalIOHelper.clean_install_files: the exception it raises, "none" if it returns
clean_install_files(archivename) ==
    IF archivename.none THEN "AttributeError" ELSE "none"

\* the handler of `prepare` (main.py:25-49) when Nix is not installed: the
\* exception of the try body is caught and printed, click.confirm may abort,
\* the finally clause runs in every case and what it raises replaces the rest
PrepareNotInstalled(e, confirm, nix_install_isdir, setup_raises) ==
    LET archive == download_release
        untar == untar_archive(archive)
        install == IF untar = "none" THEN install_files(nix_install_isdir) ELSE "none"
        setupRan == untar = "none" /\ install = "none"
        setup == IF setupRan THEN ScopedCall(e, setup_raises)
                 ELSE [env |-> e, returned |-> TRUE]
        caught == IF untar # "none" THEN untar
                  ELSE IF install # "none" THEN install
                  ELSE IF ~setup.returned THEN "OSError"
                  ELSE "none"
        handler == IF caught # "none" /\ confirm = "abort" THEN "Abort" ELSE "none"
        finally == clean_install_files(archive)
        raised == IF finally # "none" THEN finally ELSE handler
    IN  [env |-> setup.env,
         failure |-> IF caught # "none" THEN caught ELSE finally,
         exit_code |-> IF raised # "none" THEN 1 ELSE 0]

\* ---- package: Apple distribution package ----
\* PkgHelper.build_dist_pkg(self, component_packages, pkg_name, output_dir)
build_dist_pkg_params == <<"component_packages", "pkg_name", "output_dir">>
PACKAGES_OUT == <<"p", "a", "c", "k", "a", "g", "e", "s">>

\* `productbuild` counts the runs of /usr/bin/productbuild (pkg_helper.py:32)
build_dist_pkg(component_packages, pkg_name, output_dir, status) ==
    IF Cardinality(component_packages) = 0
    THEN [raised |-> "none", success |-> FALSE, written |-> {}, productbuild |-> 0]
    ELSE [raised |-> "none", success |-> status = 0,
          written |-> IF status = 0
                      THEN {[kind |-> "dist", path |-> <<>>, file |-> _dist_pkg_name(pkg_name),
                             requires |-> <<>>]}
                      ELSE {},
          productbuild |-> 1]

\* create_dpkg (main.py:234-241): the components globbed from the output
\* directory, and build_dist_pkg called with four positional arguments
create_dpkg(out, pkg_name, pkg_hash, status) ==
    LET components == {a \in out : a.kind \in {"comp", "dist"}}
        args == <<components, pkg_name, pkg_hash, PACKAGES_OUT>>
    IN  IF Len(args) # Len(build_dist_pkg_params)
        THEN [raised |-> "TypeError", success |-> FALSE, written |-> {}, productbuild |-> 0]
        ELSE build_dist_pkg(args[1], args[2], args[3], status)

\* ---- package: the loops ----
\* a slip: pkg_error = not success
PkgErrorLastOnly(pkg_error_now, success) == ~success

\* main.py:179-180
pkg_error_after(pkg_error_now, success) == IF ~success THEN TRUE ELSE pkg_error_now

\* a slip: no break after a failed build
InnerNextNoBreak(success, jj, n) == IF jj < n THEN "next" ELSE "done"

\* main.py:158 and 179-182: where the inner loop goes after the path at jj of n
InnerNext(success, jj, n) ==
    IF ~success THEN "break" ELSE IF jj < n THEN "next" ELSE "done"

\* the process ends with this exit code; the first failure class is kept
Exit(code, class) ==
    /\ pc' = "exit"
    /\ exit_code' = code
    /\ failure' = IF failure = "none" THEN class ELSE failure

InitRun ==
    /\ pc = "start"
    /\ pkgs \in SeqsUpTo({Wget}, MaxPkgs)
    /\ pkg \in BOOLEAN /\ force \in BOOLEAN
    /\ i = 0 /\ all_pkgs = <<>> /\ all_bound = FALSE /\ j = 0
    /\ pkg_error = FALSE /\ rpm_error = FALSE /\ cwd = 0 /\ output = {}
    /\ exit_code = -1 /\ failure = "none"
    /\ env \in RunEnvs /\ env_before = env /\ ncalls = 0
    /\ failedPkg = 0 /\ lastStepPkg = 0 /\ failedPath = 0 /\ lastBuildIdx = 0
    /\ okAfterFail = FALSE /\ clean = TRUE /\ produced = {} /\ dist_call = NoCall
    /\ nqueries = 0 /\ nbuilds = 0
    /\ store \in Stores /\ base_names = <<>>
    /\ call = NoCall /\ ret = NoRet

\* main.py:21-49
Prepare ==
    /\ pc = "start"
    /\ \E is_installed \in BOOLEAN, confirm \in {"y", "n", "abort"},
          nix_install_isdir \in BOOLEAN, setup_raises \in BOOLEAN :
        LET r == PrepareNotInstalled(env, confirm, nix_install_isdir, setup_raises)
        IN  /\ call' = [op |-> "prepare", installed |-> is_installed]
            /\ IF is_installed
               THEN Exit(0, "none") /\ UNCHANGED <<env, clean>>
               ELSE Exit(r.exit_code, r.failure) /\ env' = r.env /\ clean' = (r.failure = "none")
    /\ UNCHANGED <<pkgs, pkg, force, i, all_pkgs, all_bound, j, pkg_error, rpm_error, cwd,
                   output, failedPkg, lastStepPkg, failedPath, lastBuildIdx, okAfterFail,
                   produced, dist_call, nqueries, nbuilds, store, base_names,
                   ret, env_before, ncalls>>

\* main.py:120-139
PackageStart ==
    /\ pc = "start"
    /\ \E is_installed \in BOOLEAN, arm \in BOOLEAN, x86 \in BOOLEAN, uname \in Unames :
        /\ call' = [op |-> "package", installed |-> is_installed]
        /\ IF ~is_installed
           THEN /\ Exit(1, "NotInstalled")
                /\ clean' = FALSE
                /\ UNCHANGED <<pkgs, rpm_error, output, i>>
           ELSE /\ pkgs' = add_cross_compile_pkgs(pkgs, arm, x86, uname)
                /\ rpm_error' = FALSE
                /\ output' = clean_output(output)
                /\ pc' = "loop" /\ i' = 1
                /\ UNCHANGED <<exit_code, failure, clean>>
    /\ UNCHANGED <<pkg, force, all_pkgs, all_bound, j, pkg_error, cwd, env,
                   failedPkg, lastStepPkg, failedPath, lastBuildIdx, okAfterFail,
                   produced, dist_call, nqueries, nbuilds, store, base_names,
                   ret, env_before, ncalls>>

\* main.py:140-147; no artifact build of this requested package has been
\* invoked yet
SwitchProfile ==
    /\ pc = "loop" /\ i <= Len(pkgs) /\ ~rpm_error
    /\ LET r == ScopedCall(env, FALSE)
       IN  /\ env_before' = env
           /\ env' = r.env
           /\ lastStepPkg' = i
           /\ failedPath' = 0 /\ lastBuildIdx' = 0 /\ nbuilds' = 0
           /\ IF r.returned
              THEN pc' = "build" /\ UNCHANGED <<exit_code, failure, clean>>
              ELSE Exit(1, "KeyError") /\ clean' = FALSE
    /\ UNCHANGED <<pkgs, pkg, force, i, all_pkgs, all_bound, j, pkg_error, rpm_error, cwd,
                   output, failedPkg, okAfterFail, produced, dist_call, nqueries,
                   store, base_names, call, ret, ncalls>>

\* main.py:149 and the handler at 203-207
BuildPkg ==
    /\ pc = "build"
    /\ \E outcome \in BuildOutcomes, names \in BaseNameLists :
        LET r == build_pkg_env(env, force, outcome)
        IN  /\ env_before' = env
            /\ env' = r.env
            /\ lastStepPkg' = i
            /\ IF r.returned
               THEN /\ pc' = "closure"
                    /\ base_names' = names
                    /\ UNCHANGED <<exit_code, failure, clean>>
               ELSE /\ Exit(1, "NixBuildError")
                    /\ clean' = FALSE
                    /\ UNCHANGED base_names
    /\ UNCHANGED <<pkgs, pkg, force, i, all_pkgs, all_bound, j, pkg_error, rpm_error, cwd,
                   output, failedPkg, failedPath, lastBuildIdx, okAfterFail,
                   produced, dist_call, nqueries, nbuilds, store, call, ret, ncalls>>

\* main.py:152-157; base_names is not read again before line 149 assigns it
GetPkgsToPack ==
    /\ pc = "closure"
    /\ LET g == get_pkgs_to_pack(base_names, store)
           r == get_pkgs_to_pack_env(env, g.queries)
       IN  /\ env_before' = env
           /\ env' = r.env
           /\ lastStepPkg' = i
           /\ nqueries' = g.queries
           /\ base_names' = <<>>
           /\ IF ~r.returned
              THEN /\ Exit(1, IF g.raised THEN "NixPackagePathNotFoundError" ELSE "KeyError")
                   /\ clean' = FALSE
                   /\ UNCHANGED <<all_pkgs, all_bound, cwd, i, j>>
              ELSE /\ all_pkgs' \in g.returns
                   /\ all_bound' = TRUE
                   /\ cwd' = cwd + 1
                   /\ clean' = (clean /\ all_pkgs' # <<>>)
                   /\ IF all_pkgs' = <<>>
                      THEN pc' = "loop" /\ i' = i + 1 /\ j' = 0
                      ELSE pc' = "inner" /\ j' = 1 /\ i' = i
                   /\ UNCHANGED <<exit_code, failure>>
    /\ UNCHANGED <<pkgs, pkg, force, pkg_error, rpm_error, output, failedPkg, failedPath,
                   lastBuildIdx, okAfterFail, produced, dist_call, nbuilds, store,
                   call, ret, ncalls>>

\* the inner loop moves on from the path at j
Advance(next) ==
    IF next = "next"
    THEN pc' = "inner" /\ j' = j + 1 /\ i' = i
    ELSE pc' = "loop" /\ i' = i + 1 /\ j' = 0

\* the (hash, name) pairs of main.py:162
deps_pairs_of(deps) ==
    [m \in DOMAIN deps |-> <<separate_name_hash(deps[m]).hash, separate_name_hash(deps[m]).name>>]

\* create_rpm (main.py:211-218): the RPM that rpmbuild makes of the generated
\* spec file carries the file's Requires tags
create_rpm(pkg_path, pkg_name, pkg_hash, deps_pairs) ==
    LET spec_contents == generate_spec(pkg_path, pkg_name, pkg_hash, deps_pairs)
    IN  [kind |-> "rpm", path |-> pkg_path, file |-> _rpm_name(pkg_name, pkg_hash),
         requires |-> RequiresLines(spec_contents)]

\* create_cpkg (main.py:222-230)
create_cpkg(pkg_path, pkg_name, pkg_hash) ==
    [kind |-> "comp", path |-> pkg_path, file |-> _comp_pkg_name(pkg_name, pkg_hash),
     requires |-> <<>>]

\* a file written under a name replaces the file of that name
Written(out, artifact) ==
    {a \in out : ~(a.kind = artifact.kind /\ a.file = artifact.file)} \cup {artifact}

\* main.py:158-182, one pass of the inner loop
PackageOne ==
    /\ pc = "inner"
    /\ LET pkg_path == all_pkgs[j]
           parsed == separate_name_hash(pkg_path)
           refs == ScopedCall(env, FALSE)
           deps == Printed(store.references, pkg_path)
           depsOk == \A m \in DOMAIN deps : separate_name_hash(deps[m]).ok
           artifact == IF pkg
                       THEN create_cpkg(pkg_path, parsed.name, parsed.hash)
                       ELSE create_rpm(pkg_path, parsed.name, parsed.hash, deps_pairs_of(deps))
       IN  /\ lastStepPkg' = i
           /\ env_before' = env
           /\ env' = IF parsed.ok THEN refs.env ELSE env
           /\ IF ~parsed.ok \/ ~depsOk
              THEN /\ Exit(1, "RuntimeError")
                   /\ clean' = FALSE
                   /\ UNCHANGED <<i, j, pkg_error, output, produced, failedPkg, failedPath,
                                  lastBuildIdx, okAfterFail, nbuilds>>
              ELSE \E status \in ExitStatuses :
                   LET skipped == pkg /\ ~IsDir(store, pkg_path)
                       success == status = 0
                   IN  IF skipped
                       THEN /\ Advance(InnerNext(TRUE, j, Len(all_pkgs)))
                            /\ clean' = FALSE
                            /\ UNCHANGED <<exit_code, failure, pkg_error, output, produced,
                                           failedPkg, failedPath, lastBuildIdx, okAfterFail,
                                           nbuilds>>
                       ELSE /\ Advance(InnerNext(success, j, Len(all_pkgs)))
                            /\ pkg_error' = pkg_error_after(pkg_error, success)
                            /\ output' = IF success THEN Written(output, artifact) ELSE output
                            /\ produced' = IF success THEN Written(produced, artifact)
                                           ELSE produced
                            /\ nbuilds' = nbuilds + 1
                            /\ lastBuildIdx' = j
                            /\ failedPath' = IF ~success /\ failedPath = 0 THEN j
                                             ELSE failedPath
                            /\ failedPkg' = IF ~success /\ failedPkg = 0 THEN i ELSE failedPkg
                            /\ okAfterFail' = (okAfterFail \/ (success /\ failedPkg # 0))
                            /\ clean' = (clean /\ success)
                            /\ failure' = IF ~success /\ failure = "none"
                                          THEN "ArtifactBuildFailed" ELSE failure
                            /\ UNCHANGED exit_code
    /\ UNCHANGED <<pkgs, pkg, force, all_pkgs, all_bound, rpm_error, cwd,
                   dist_call, nqueries, store, base_names, call, ret, ncalls>>

\* main.py:183-202, after the outer loop
Finish ==
    /\ pc = "loop" /\ (i > Len(pkgs) \/ rpm_error)
    /\ \E status \in ExitStatuses :
        IF ~pkg
        THEN /\ Exit(IF pkg_error THEN 1 ELSE 0, "none")
             /\ UNCHANGED <<pkg_error, output, produced, dist_call, clean>>
        ELSE IF ~all_bound
        THEN /\ Exit(1, "UnboundLocalError")
             /\ clean' = FALSE
             /\ UNCHANGED <<pkg_error, output, produced, dist_call>>
        ELSE IF all_pkgs = <<>>
        THEN /\ Exit(1, "IndexError")
             /\ clean' = FALSE
             /\ UNCHANGED <<pkg_error, output, produced, dist_call>>
        ELSE
        LET primary == separate_name_hash(all_pkgs[1])
            r == create_dpkg(output, primary.name, primary.hash, status)
        IN  IF ~primary.ok
            THEN /\ Exit(1, "RuntimeError")
                 /\ clean' = FALSE
                 /\ UNCHANGED <<pkg_error, output, produced, dist_call>>
            ELSE /\ dist_call' = [op |-> "create_dpkg", primary |-> all_pkgs[1],
                                  status |-> status,
                                  components |-> {a \in output : a.kind \in {"comp", "dist"}},
                                  productbuild |-> r.productbuild]
                 /\ IF r.raised # "none"
                    THEN /\ Exit(1, r.raised)
                         /\ UNCHANGED <<pkg_error, output, produced, clean>>
                    ELSE /\ pkg_error' = pkg_error_after(pkg_error, r.success)
                         /\ output' = output \cup r.written
                         /\ produced' = produced \cup r.written
                         /\ clean' = (clean /\ r.success)
                         /\ Exit(IF pkg_error' THEN 1 ELSE 0,
                                 IF r.success THEN "none" ELSE "ArtifactBuildFailed")
    /\ UNCHANGED <<pkgs, pkg, force, i, all_pkgs, all_bound, j, rpm_error, cwd, env,
                   env_before, failedPkg, lastStepPkg, failedPath, lastBuildIdx, okAfterFail,
                   nqueries, nbuilds, store, base_names, call, ret, ncalls>>

Next ==
    \/ Prepare
    \/ PackageStart
    \/ SwitchProfile
    \/ BuildPkg
    \/ GetPkgsToPack
    \/ PackageOne
    \/ Finish

Init == InitRun
Spec == Init /\ [][Next]_vars

(***************************************************************************)
(* Properties of separate_name_hash (checked under SpecParse)              *)
(***************************************************************************)
NoLineBreak(s) == \A m \in 1..Len(s) : s[m] # "\n"
SlashPositions(s) == {k \in 1..Len(s) : s[k] = "/"}
MaxOf(S) == CHOOSE k \in S : \A m \in S : m <= k
\* os.path.basename: what follows the last slash
Basename(s) == SubSeq(s, MaxOf(SlashPositions(s)) + 1, Len(s))
\* b is <32 characters of class>-<name>
HasShape(b, class) ==
    /\ Len(b) >= HashLen + 1
    /\ \A m \in 1..HashLen : b[m] \in class
    /\ b[HashLen + 1] = "-"

\* C7 as stated: separate_name_hash returns (hash, name) exactly when the
\* basename of the path is 32 hexadecimal characters, a dash and a name, with
\* hash those 32 characters and name what follows the dash; it raises for every
\* other path.
C7_ParsesExactlyHexBasename ==
    ret.done =>
        LET path == call.path
            shaped == SlashPositions(path) # {} /\ HasShape(Basename(path), HexChars)
        IN  /\ ret.val.ok <=> shaped
            /\ ret.val.ok =>
                 /\ ret.val.hash = SubSeq(Basename(path), 1, HashLen)
                 /\ ret.val.name = SubSeq(Basename(path), HashLen + 2, Len(Basename(path)))

\* the slashes of the path that are followed by 32 characters of [a-z0-9] and a dash
HashSlashes(s) ==
    {k \in SlashPositions(s) : HasShape(SubSeq(s, k + 1, Len(s)), LowerAlnum)}

\* C7 amended: for a path without line breaks, separate_name_hash returns
\* (hash, name) exactly when some slash of the path is followed by 32 characters
\* of [a-z0-9] and a dash; hash is the 32 characters after the last such slash
\* and name is everything after the dash that follows them; any other path
\* raises.
C7_ParsesLowerAlnumComponent ==
    (ret.done /\ NoLineBreak(call.path)) =>
        LET path == call.path
        IN  /\ ret.val.ok <=> HashSlashes(path) # {}
            /\ ret.val.ok =>
                 LET k == MaxOf(HashSlashes(path))
                 IN  /\ ret.val.hash = SubSeq(path, k + 1, k + HashLen)
                     /\ ret.val.name = SubSeq(path, k + HashLen + 2, Len(path))
            /\ ~ret.val.ok => ret.val = Raised

\* a store path whose hash holds a character that is no hexadecimal digit was
\* parsed into its hash and name
C7_Witness ==
    /\ ret.done
    /\ call.path = StoreDir \o HashLike(HashLen, "a", 1, "z") \o Dash \o Wget
    /\ ret.val = [ok |-> TRUE, hash |-> HashLike(HashLen, "a", 1, "z"), name |-> Wget]

(***************************************************************************)
(* Properties of the RPM name (checked under SpecName)                     *)
(***************************************************************************)
\* s with each "+" character spelled out
RECURSIVE SpellPlus(_)
SpellPlus(s) ==
    IF s = <<>> THEN <<>>
    ELSE (IF Head(s) = "+" THEN PlusWord ELSE <<Head(s)>>) \o SpellPlus(Tail(s))

\* C8: the RPM name of (name, hash) is nix2rpm-<name>-<hash> with every "+"
\* replaced by "plus": it holds no "+", it is the unsanitized string when name
\* and hash hold no "+", and sanitizing it again changes nothing.
C8_RpmNameSanitized ==
    (ret.done /\ ret.fn = "_rpm_name") =>
        LET raw == Nix2RpmPrefix \o call.pkg_name \o Dash \o call.pkg_hash
        IN  /\ ret.val = SpellPlus(raw)
            /\ ~Contains(ret.val, Plus)
            /\ (~Contains(call.pkg_name, Plus) /\ ~Contains(call.pkg_hash, Plus))
                 => ret.val = raw
            /\ StrReplace(ret.val, Plus, PlusWord) = ret.val

\* the RPM name of a package whose name holds two "+" was generated
C8_Witness ==
    /\ ret.done /\ ret.fn = "_rpm_name"
    /\ call.pkg_name = <<"a", "+", "+">> /\ call.pkg_hash = HashA
    /\ ret.val = Nix2RpmPrefix \o <<"a">> \o PlusWord \o PlusWord \o Dash \o HashA

(***************************************************************************)
(* Properties of add_cross_compile_pkgs (checked under SpecCross)          *)
(***************************************************************************)
\* what the claim expects of one name on a host whose own architecture is own
ClaimedEntries(p, own, arm, x86) ==
    IF Contains(p, PkgsCross) THEN <<p>>
    ELSE LET ownFlag == IF own = "arm" THEN arm ELSE x86
             otherFlag == IF own = "arm" THEN x86 ELSE arm
             prefix == IF own = "arm" THEN CrossX86Prefix ELSE CrossArmPrefix
         IN  (IF ownFlag THEN <<p>> ELSE <<>>)
             \o (IF otherFlag THEN <<prefix \o p>> ELSE <<>>)

RECURSIVE ClaimedList(_, _, _, _)
ClaimedList(ps, own, arm, x86) ==
    IF ps = <<>> THEN <<>>
    ELSE ClaimedEntries(Head(ps), own, arm, x86) \o ClaimedList(Tail(ps), own, arm, x86)

\* the architectures a host may be taken to have: the ones it reports, any when
\* it reports none
OwnArchs(u) ==
    LET reported == {a \in {"arm", "x86"} :
                        (a = "arm" /\ is_arm(u)) \/ (a = "x86" /\ is_x86(u))}
    IN  IF reported = {} THEN {"arm", "x86"} ELSE reported

\* C10 as stated: with a flag set, on any host, every name without the
\* cross-compile prefix expands into the unmodified name iff the flag of the
\* host's own architecture is set and the cross-prefixed name iff the other
\* flag is set, in input order.
C10_ExpandsOnAnyHost ==
    (ret.done /\ (call.arm \/ call.x86)) =>
        \E own \in OwnArchs(call.uname) :
            ret.val = ClaimedList(call.pkgs, own, call.arm, call.x86)

\* C10 amended: with a flag set, on a host that reports exactly one of ARM64
\* and X86_64, every name without the cross-compile prefix expands into the
\* unmodified name iff the flag of the host's architecture is set and the
\* cross-prefixed name iff the other flag is set, in input order; on an x86
\* host expand(["wget"], arm, x86) is ["wget", "pkgsCross.aarch64-darwin.wget"].
C10_ExpandsOnArmOrX86Host ==
    (/\ ret.done
     /\ call.arm \/ call.x86
     /\ is_arm(call.uname) # is_x86(call.uname)) =>
        LET own == IF is_arm(call.uname) THEN "arm" ELSE "x86"
        IN  /\ ret.val = ClaimedList(call.pkgs, own, call.arm, call.x86)
            /\ (call.pkgs = <<Wget>> /\ call.arm /\ call.x86 /\ own = "x86")
                 => ret.val = <<Wget, CrossArmPrefix \o Wget>>

\* on an x86 host, wget was expanded for both architectures
C10_Witness ==
    /\ ret.done
    /\ call.pkgs = <<Wget>> /\ call.arm /\ call.x86 /\ call.uname = UnameX86
    /\ ret.val = <<Wget, CrossArmPrefix \o Wget>>

\* how often x occurs in the list l
Count(x, l) == Cardinality({m \in DOMAIN l : l[m] = x})
\* the cross-prefixed names the expansion can make of the unprefixed names of l
Generated(l) ==
    {prefix \o l[m] : prefix \in {CrossArmPrefix, CrossX86Prefix},
                      m \in {n \in DOMAIN l : ~Contains(l[n], PkgsCross)}}

\* C11 as stated: with neither flag set add_cross_compile_pkgs returns the
\* input list unchanged, and for every flag combination and every host a name
\* of the input that carries the cross-compile prefix occurs in the output
\* exactly once.
C11_PrefixedNameExactlyOnce ==
    ret.done =>
        /\ (~call.arm /\ ~call.x86) => ret.val = call.pkgs
        /\ \A m \in DOMAIN call.pkgs :
             Contains(call.pkgs[m], PkgsCross) => Count(call.pkgs[m], ret.val) = 1

\* C11 amended: with neither flag set add_cross_compile_pkgs returns the input
\* list unchanged; for every flag combination and every host each entry of the
\* input that carries the cross-compile prefix is carried into the output
\* unmodified: a prefixed name occurs in the output at least as often as in the
\* input, and the prefixed names of the input that no unprefixed name of the
\* input expands into occur in the output exactly as in the input, the same
\* number of times and in the same order.
C11_PrefixedEntriesPassThrough ==
    ret.done =>
        LET prefixed == {call.pkgs[m] : m \in {n \in DOMAIN call.pkgs :
                                                  Contains(call.pkgs[n], PkgsCross)}}
        IN  /\ (~call.arm /\ ~call.x86) => ret.val = call.pkgs
            /\ \A p \in prefixed : Count(p, ret.val) >= Count(p, call.pkgs)
            /\ Only(ret.val, prefixed \ Generated(call.pkgs))
                 = Only(call.pkgs, prefixed \ Generated(call.pkgs))

\* on a host that reports neither architecture, with the arm flag set, the
\* prefixed name of the input came through and the unprefixed one did not
C11_Witness ==
    /\ ret.done
    /\ call.pkgs = <<CrossArmPrefix \o Wget, Gpp>>
    /\ call.arm /\ ~call.x86 /\ call.uname = UnameLinux
    /\ ret.val = <<CrossArmPrefix \o Wget>>

(***************************************************************************)
(* Properties of the generated spec file (checked under SpecRpm)           *)
(***************************************************************************)
\* the names a Requires line lists
Required(line) ==
    LET words == SplitAt(SubSeq(line, Len(RequiresLabel) + 1, Len(line)), " ")
    IN  Only(words, {words[m] : m \in DOMAIN words} \ {<<>>})
\* nix2rpm-<name>-<hash> with each "+" spelled out, for the pairs of deps whose
\* hash is not own_hash, in order
RECURSIVE ForeignRpmNames(_, _)
ForeignRpmNames(deps, own_hash) ==
    IF deps = <<>> THEN <<>>
    ELSE (IF Head(deps)[1] # own_hash
          THEN <<SpellPlus(Nix2RpmPrefix \o Head(deps)[2] \o Dash \o Head(deps)[1])>>
          ELSE <<>>)
         \o ForeignRpmNames(Tail(deps), own_hash)

\* C12: the text generate_spec returns holds a Requires line iff some
\* dependency has a hash other than the package's own; when present there is
\* one such line and it lists exactly the sanitized RPM names of the
\* dependencies whose hash differs from the package's hash, in input order, and
\* never the package itself; an empty dependency list gives no Requires line.
C12_RequiresLineListsForeignDeps ==
    (ret.done /\ call.op = "generate_spec") =>
        LET expected == ForeignRpmNames(call.deps_pairs, call.pkg_hash)
            found == RequiresLines(ret.val)
            own == SpellPlus(Nix2RpmPrefix \o call.pkg_name \o Dash \o call.pkg_hash)
        IN  /\ found # <<>> <=> \E m \in DOMAIN call.deps_pairs :
                                    call.deps_pairs[m][1] # call.pkg_hash
            /\ Len(found) <= 1
            /\ found # <<>> =>
                 /\ Required(found[1]) = expected
                 /\ found[1] = RequiresLabel \o Join([m \in DOMAIN expected |->
                                                         Space \o expected[m]], <<>>)
                 /\ \A m \in DOMAIN Required(found[1]) : Required(found[1])[m] # own
            /\ call.deps_pairs = <<>> => found = <<>>

\* the spec of wget was generated from a list that names g++, wget itself and
\* curl
C12_Witness ==
    /\ ret.done /\ call.op = "generate_spec"
    /\ call.pkg_name = Wget /\ call.pkg_hash = HashA
    /\ call.deps_pairs = <<<<HashB, Gpp>>, <<HashA, Wget>>, <<HashC, Curl>>>>
    /\ RequiresLines(ret.val) =
         <<RequiresLabel \o Space \o Nix2RpmPrefix \o <<"g">> \o PlusWord \o PlusWord
                         \o Dash \o HashB
                         \o Space \o Nix2RpmPrefix \o Curl \o Dash \o HashC>>

\* C16 as stated: a name holding the fragment aarch64-apple-darwin- gives
\* aarch64 and a name holding x86_64-apple-darwin- gives x86_64, whatever the
\* host; a name with neither gives the host's native architecture (aarch64 on
\* ARM, x86_64 otherwise); the result is one of aarch64, x86_64.
C16_ArchFromNameFragment ==
    (ret.done /\ call.op = "get_build_arch") =>
        LET armName == Contains(call.pkg_name, Aarch64 \o AppleDarwinDash)
            x86Name == Contains(call.pkg_name, X8664 \o AppleDarwinDash)
        IN  /\ armName => ret.val = Aarch64
            /\ x86Name => ret.val = X8664
            /\ (~armName /\ ~x86Name)
                 => ret.val = (IF is_arm(call.uname) THEN Aarch64 ELSE X8664)
            /\ ret.val \in {Aarch64, X8664}

\* C16 amended: a name holding the fragment x86_64-apple-darwin- gives x86_64
\* whatever the host and whatever else the name holds; a name holding
\* aarch64-apple-darwin- and not the x86_64 fragment gives aarch64 whatever the
\* host; a name with neither gives the host's native architecture (aarch64 on
\* ARM, x86_64 otherwise); the result is one of aarch64, x86_64.
C16_ArchFromNameX86FragmentFirst ==
    (ret.done /\ call.op = "get_build_arch") =>
        LET armName == Contains(call.pkg_name, Aarch64 \o AppleDarwinDash)
            x86Name == Contains(call.pkg_name, X8664 \o AppleDarwinDash)
        IN  /\ x86Name => ret.val = X8664
            /\ (armName /\ ~x86Name) => ret.val = Aarch64
            /\ (~armName /\ ~x86Name)
                 => ret.val = (IF is_arm(call.uname) THEN Aarch64 ELSE X8664)
            /\ ret.val \in {Aarch64, X8664}

\* on an ARM host, a name holding both fragments was given x86_64
C16_Witness ==
    /\ ret.done /\ call.op = "get_build_arch"
    /\ call.uname = UnameArm
    /\ call.pkg_name = Aarch64 \o AppleDarwinDash \o X8664 \o AppleDarwinDash \o Gcc
    /\ ret.val = X8664

(***************************************************************************)
(* Properties of the scoped environment override (checked under SpecEnv)   *)
(***************************************************************************)
OverrideOps == {"switch_profile", "build_pkg", "get_pkgs_to_pack",
                "get_pkgs_references", "initial_setup"}

\* C6: after an operation that runs an external call under the scoped override
\* has returned, os.environ equals os.environ before the call: the same
\* variables are set, each to its old value.
C6_EnvironmentRestoredOnReturn ==
    (ret.done /\ call.op \in OverrideOps /\ ret.returned) =>
        /\ DOMAIN env = DOMAIN env_before
        /\ \A v \in DOMAIN env : env[v] = env_before[v]

\* a forced build_pkg returned, in an environment that had its own NIX_PATH
\* and no NIXPKGS_ALLOW_BROKEN before the call
C6_Witness ==
    /\ ret.done /\ ret.returned
    /\ call.op = "build_pkg" /\ call.force
    /\ "NIX_PATH" \in DOMAIN env_before
    /\ "NIXPKGS_ALLOW_BROKEN" \notin DOMAIN env_before
    /\ "LANG" \in DOMAIN env_before

\* C17: the scoped override is undone also when the operation inside it
\* fails: after build_pkg has raised NixBuildError, os.environ equals
\* os.environ before the call, so neither the NIXPKGS_ALLOW_* variables of a
\* forced build nor the prepended PATH entry outlive the call.
C17_EnvironmentRestoredOnRaise ==
    (/\ ret.done /\ call.op = "build_pkg" /\ ~ret.returned
     /\ {"HOME", "PATH"} \subseteq DOMAIN env_before) =>
        /\ DOMAIN env = DOMAIN env_before
        /\ \A v \in DOMAIN env : env[v] = env_before[v]

(***************************************************************************)
(* Properties of the `package` and `prepare` runs (checked under Spec)     *)
(***************************************************************************)
\* C1: once an artifact build has failed while packaging the requested package
\* p_i, no step (switch_profile, nix build, closure query, artifact build) is
\* started for a later requested package.
C1_NoStepAfterFailedPackage ==
    failedPkg # 0 => lastStepPkg <= failedPkg

\* C2: within the closure of one requested package, after the first store path
\* whose artifact build failed the inner loop is left and no artifact build is
\* invoked for a later path of that closure; the artifacts built before stay in
\* the output directory.
C2_ClosureStopsAtFirstFailure ==
    /\ failedPath # 0 => (pc # "inner" /\ lastBuildIdx <= failedPath)
    /\ produced \subseteq output

\* the second of three store paths failed after the first was built
C2_Witness ==
    /\ failedPath = 2 /\ lastBuildIdx = 2
    /\ Len(all_pkgs) = 3
    /\ Cardinality(output) = 1 /\ produced = output

\* C3: if any artifact build of the run returned failure, the process ends
\* with exit code 1, whichever package or path failed and whatever later
\* builds did.
C3_BuildFailureExitsOne ==
    (pc = "exit" /\ failure = "ArtifactBuildFailed") => exit_code = 1

\* a build failed, a later build succeeded, and the process has ended
C3_Witness ==
    /\ pc = "exit" /\ failure = "ArtifactBuildFailed"
    /\ failedPkg = 1 /\ okAfterFail /\ lastStepPkg = 2
    /\ exit_code = 1

\* C4: when the runtime is installed and every external step of a run that
\* packages something succeeds, `package` ends with exit code 0, in RPM mode and
\* in Apple-package mode alike.
C4_FullSuccessExitsZero ==
    (pc = "exit" /\ call.op = "package" /\ call.installed /\ clean /\ Len(pkgs) > 0)
        => exit_code = 0

C9_InstallersNamedByNameAndHash ==
    /\ (/\ pc = "exit"
        /\ dist_call.op = "create_dpkg"
        /\ dist_call.status = 0
        /\ dist_call.components # {})
       => LET p == separate_name_hash(dist_call.primary)
          IN  \E a \in output :
                /\ a.kind = "dist"
                /\ a.file = SpellPlus(Nix2PkgPrefix \o p.name \o Dash \o p.hash \o PkgSuffix)
    /\ \A a \in output :
         a.kind = "comp" =>
            LET p == separate_name_hash(a.path)
            IN  a.file = SpellPlus(p.name \o Dash \o p.hash \o PkgSuffix)

\* the members of the list l
Range(l) == {l[m] : m \in DOMAIN l}
\* nix2rpm-<name>-<hash> of a store path, each "+" spelled out
RpmNameOfPath(path) ==
    SpellPlus(Nix2RpmPrefix \o separate_name_hash(path).name \o Dash
              \o separate_name_hash(path).hash)
\* the names the RPM a requires
RequiredNames(a) == IF a.requires = <<>> THEN {} ELSE Range(Required(a.requires[1]))

\* C13: in RPM mode, when every build succeeds, a run for one requested
\* package invokes the artifact build exactly once for each distinct store
\* path of the package's closure (one artifact per path, none twice, none
\* skipped), and the spec generated for path P requires nix2rpm-<name>-<hash>
\* of D iff D is a direct reference of P other than P itself; for a closure of
\* two paths of which the first refers to the second alone, two artifacts are
\* produced and exactly one holds the Requires line, naming the second.
C13_OneArtifactPerClosurePath ==
    (/\ pc = "exit" /\ call.op = "package" /\ call.installed
     /\ ~pkg /\ clean /\ Len(pkgs) = 1) =>
        LET closure == Range(all_pkgs)
        IN  /\ nbuilds = Cardinality(closure)
            /\ Cardinality(produced) = Cardinality(closure)
            /\ \A P \in closure : Cardinality({a \in produced : a.path = P}) = 1
            /\ \A a \in produced :
                 /\ a.kind = "rpm"
                 /\ Len(a.requires) <= 1
                 /\ RequiredNames(a) =
                      {RpmNameOfPath(D) :
                         D \in Range(Printed(store.references, a.path)) \ {a.path}}
            /\ (/\ closure = {PathCurl, PathGpp}
                /\ Printed(store.references, PathCurl) = <<PathGpp>>
                /\ Printed(store.references, PathGpp) = <<>>)
                 => /\ Cardinality(produced) = 2
                    /\ {a.path : a \in {b \in produced :
                            b.requires = <<RequiresLabel \o Space \o RpmNameOfPath(PathGpp)>>}}
                         = {PathCurl}
                    /\ \A a \in produced : a.path = PathGpp => a.requires = <<>>

\* an RPM run for one requested package whose closure is curl and g++ has ended
\* with two RPMs, the one of curl requiring the one of g++
C13_Witness ==
    /\ pc = "exit" /\ call.op = "package" /\ ~pkg /\ clean /\ Len(pkgs) = 1
    /\ exit_code = 0
    /\ Range(all_pkgs) = {PathCurl, PathGpp}
    /\ Cardinality(produced) = 2
    /\ \E a \in produced :
         /\ a.path = PathCurl
         /\ a.requires = <<RequiresLabel \o Space \o Nix2RpmPrefix \o <<"g">> \o PlusWord
                            \o PlusWord \o Dash \o HashB>>
    /\ \E a \in produced : a.path = PathGpp /\ a.requires = <<>>

\* the store directories whose entry name contains one of the names
MatchingDirs(st, names) ==
    {StoreDir \o st.listing[m].name :
        m \in {n \in DOMAIN st.listing :
                 /\ st.listing[n].isdir
                 /\ \E k \in DOMAIN names : Contains(st.listing[n].name, names[k])}}

\* C14: get_pkgs_to_pack, given the built output names, returns the union of
\* the closures reported for every store directory whose basename contains one
\* of the names, no path twice, also when closures overlap or a directory
\* matches several names; when no store directory matches any name it raises
\* the not-found error without issuing a closure query, the process ends, and
\* nothing is packaged for that request.
C14_ClosureUnionOrNotFound ==
    [][/\ pc # "exit"
       /\ pc = "closure" =>
            LET dirs == MatchingDirs(store, base_names)
                union == UNION {Range(Printed(store.requisites, d)) : d \in dirs}
            IN  IF dirs = {}
                THEN /\ pc' = "exit" /\ exit_code' = 1
                     /\ failure' = (IF failure = "none" THEN "NixPackagePathNotFoundError"
                                    ELSE failure)
                     /\ nqueries' = 0
                     /\ nbuilds' = 0 /\ lastBuildIdx' = 0
                     /\ output' = output /\ produced' = produced
                ELSE /\ pc' \in {"inner", "loop"}
                     /\ nqueries' >= Cardinality(dirs)
                     /\ Range(all_pkgs') = union
                     /\ Len(all_pkgs') = Cardinality(union)
      ]_vars

\* two closure queries whose answers overlap gave a list of two paths
C14_Witness ==
    /\ pc = "inner" /\ store = GoodStore
    /\ nqueries = 2
    /\ Range(all_pkgs) = {PathGpp, PathCurl} /\ Len(all_pkgs) = 2

\* C15: in Apple-package mode the distribution-package builder is run exactly
\* once per run, after the last component-package build and never before or
\* between component builds, and it is given every component package found in
\* the output directory.
C15_DistBuilderRunOnceAfterComponents ==
    /\ (dist_call.op = "create_dpkg" /\ dist_call.productbuild > 0) => pc = "exit"
    /\ (pc = "exit" /\ call.op = "package" /\ call.installed /\ pkg /\ clean
            /\ Len(pkgs) > 0)
          => /\ dist_call.op = "create_dpkg"
             /\ dist_call.productbuild = 1
             /\ dist_call.components = {a \in output : a.kind = "comp"}

\* C18: every requested package of one `package` run is built from the same
\* working directory: at the start of each iteration of the requested-package
\* loop, and when build_pkg runs in it, the working directory is the one the
\* first iteration started in.
C18_SameWorkingDirectoryEachIteration ==
    (pc \in {"loop", "build"} /\ i >= 1 /\ i <= Len(pkgs)) => cwd = 0

====
